---- MODULE Spec2Model ----
\* Route53 record validation: the CNAME chain resolver of route53_check.py and
\* the run loops of route53_check.py ("check") and route53_validator.py
\* ("validator").
\*
\* Representation.
\*   - A DNS name or a record value is a sequence of one-character strings
\*     (<<"A", ".">> is the Python string "A.").
\*   - Python's None and an optional value are a sequence of length <= 1:
\*     None is <<>>, a present value v is <<v>>.
\*   - A route53 record set is [Name, Type, ResourceRecords]; ResourceRecords is
\*     the sequence of the 'Value' strings, <<>> when the list is empty or the
\*     key is missing (both make record['ResourceRecords'][0] raise).
\*   - A status is the sequence of the string pieces the code concatenates or
\*     joins; the check mark and the cross of the validator's status parts are
\*     written "[ok] " and "[x] ".
EXTENDS Integers, Sequences, FiniteSets, TLC

VARIABLES
    variant,          \* which script runs: "check" or "validator"
    records,          \* list_records(...): the zone's record sets, in order
    ignore_patterns,  \* the compiled --ignore patterns
    limit,            \* args.limit: None or an integer
    oracle,           \* the DNS world: name -> set of A answers ({} = lookup fails)
    pc,               \* position of main: "loop", "done", "raised"
    idx,              \* position of `for record in records` (next record, 1-based)
    unresolved,
    resolved,
    all_results,
    processed_count,
    seen_sources,     \* validator only
    oracle_calls,     \* history: the names main passed to resolve_to_external_ip
    origin,           \* history: for each entry of all_results, the index of its record
    domain_name,      \* resolve_cname_chain's argument (stepwise walk)
    chain             \* resolve_cname_chain's locals (stepwise walk)

runVars == <<variant, ignore_patterns, limit, pc, idx, unresolved, resolved,
             all_results, processed_count, seen_sources, oracle_calls, origin>>
chainVars == <<domain_name, chain>>
vars == <<records, oracle, runVars, chainVars>>

\* ---------------------------------------------------------------- bounds

MaxRecords == 3        \* longest record list of a run
MaxChainRecords == 3   \* longest record list of a stepwise chain walk
MaxLimit == 2          \* largest --limit

\* ------------------------------------------------------- Python values

None == <<>>
Some(v) == <<v>>

\* truthiness of an optional list or string: None, [] and "" are falsy
Truthy(opt) == opt # None /\ opt[1] # <<>>

\* ------------------------------------------------------------ normalize

Lower(c) ==
    CASE c = "A" -> "a"
      [] c = "B" -> "b"
      [] c = "C" -> "c"
      [] OTHER -> c

RECURSIVE RStripDots(_)
RStripDots(s) ==
    IF Len(s) > 0 /\ s[Len(s)] = "."
    THEN RStripDots(SubSeq(s, 1, Len(s) - 1))
    ELSE s

\* name.rstrip('.').lower()
normalize(name) ==
    LET s == RStripDots(name) IN [k \in 1..Len(s) |-> Lower(s[k])]

\* ------------------------------------------------------ ignore patterns

\* A compiled pattern is a literal with optional anchors:
\* [start |-> TRUE, lit |-> <<"a">>, end |-> FALSE] is re.compile("^a").
\* The literal holds no regex metacharacter.
MatchAt(pat, s, k) ==
    /\ k + Len(pat.lit) - 1 <= Len(s)
    /\ SubSeq(s, k, k + Len(pat.lit) - 1) = pat.lit
    /\ pat.start => k = 1
    /\ pat.end => k + Len(pat.lit) - 1 = Len(s)

\* pat.search(s) is a match object (truthy) or None
search(pat, s) == \E k \in 1..(Len(s) + 1) : MatchAt(pat, s, k)

\* any(pat.search(source) or (target and pat.search(target)) for pat in ignore_patterns)
IgnoreMatch(patterns, source, target) ==
    \E p \in 1..Len(patterns) :
        \/ search(patterns[p], source)
        \/ (Truthy(target) /\ search(patterns[p], target[1]))

\* ------------------------------------------------------------- the oracle

IPUniverse == <<"10.0.0.1", "10.0.0.2">>   \* in sorted order
IPs == {IPUniverse[k] : k \in 1..Len(IPUniverse)}

\* sorted([r.address for r in answer])
SortIPs(answer) == SelectSeq(IPUniverse, LAMBDA a : a \in answer)

\* resolve_to_external_ip: the sorted answers, None when the lookup raises
resolve_to_external_ip(world, domain) ==
    IF domain \in DOMAIN world /\ world[domain] # {}
    THEN Some(SortIPs(world[domain]))
    ELSE None

\* The DNS worlds: every name of the resolvable set answers with its fixed
\* addresses, every other name fails to resolve.
Answer(name) == IF name = <<"a">> THEN {"10.0.0.2", "10.0.0.1"} ELSE {"10.0.0.1"}
WorldsOver(names) == {[n \in R |-> Answer(n)] : R \in SUBSET names}

\* --------------------------------------------------- resolve_cname_chain

Min(S) == CHOOSE m \in S : \A k \in S : m <= k

Max(S) == CHOOSE m \in S : \A k \in S : m >= k

\* faulty variant: the last record of the name is taken
LastMatch(recs, current_name) ==
    LET hits == {k \in 1..Len(recs) : normalize(recs[k].Name) = current_name}
    IN  IF hits = {} THEN None ELSE Some(recs[Max(hits)])

\* next((r for r in records if normalize(r['Name']) == current_name), None)
FirstMatch(recs, current_name) ==
    LET hits == {k \in 1..Len(recs) : normalize(recs[k].Name) = current_name}
    IN  IF hits = {} THEN None ELSE Some(recs[Min(hits)])

LoopStatus == <<"CNAME loop detected">>
UnsupportedStatus(record_type) == <<"Unsupported record type: ", record_type>>

\* faulty variant: the A statuses swapped
AStatusSwapped(ip_list) ==
    IF Truthy(ip_list) THEN <<"A record does not resolve externally">>
    ELSE <<"Externally resolvable A record">>

AStatus(ip_list) ==
    IF Truthy(ip_list) THEN <<"Externally resolvable A record">>
    ELSE <<"A record does not resolve externally">>

NoMatchStatus(ip_list) ==
    IF Truthy(ip_list) THEN <<"Resolved externally">>
    ELSE <<"Does not have an IP match">>

Ret(final_domain, status, ip_list) ==
    [final_domain |-> final_domain, status |-> status, ip_list |-> ip_list]
NoRet == Ret(<<>>, <<>>, None)

\* The locals on entry: pc "while" is the test of the while condition,
\* "returned" a return statement taken (ret holds the tuple), "raised" the
\* IndexError/KeyError of match['ResourceRecords'][0]. calls and steps are
\* history: the names passed to resolve_to_external_ip and the number of
\* executions of the loop body.
ChainStart(name) ==
    [pc |-> "while", tested_records |-> {}, current_name |-> normalize(name),
     ret |-> NoRet, calls |-> <<>>, steps |-> 0]

\* faulty variant: the while condition never fails
LoopTestNever(st) == TRUE

\* faulty variant: a loop is presumed after two hops
LoopTestHops(st) == st.steps < 2

\* while current_name not in tested_records
LoopTest(st) == st.current_name \notin st.tested_records

\* faulty variant: an unsupported type is followed like a CNAME
IsCnameOrOther(record_type) == record_type # "A"

IsCname(record_type) == record_type = "CNAME"

\* One test of the while condition and, when it holds, one execution of the
\* loop body.
ChainStep(recs, world, st) ==
    IF ~LoopTest(st)
    THEN [st EXCEPT !.pc = "returned",
                    !.ret = Ret(st.current_name, LoopStatus, None)]
    ELSE
    LET cur == st.current_name
        entered == [st EXCEPT !.tested_records = @ \cup {cur}, !.steps = @ + 1]
        match == FirstMatch(recs, cur)
    IN  IF ~(match # None)
        THEN LET ip_list == resolve_to_external_ip(world, cur)
             IN  [entered EXCEPT !.pc = "returned",
                                 !.calls = Append(@, cur),
                                 !.ret = Ret(cur, NoMatchStatus(ip_list), ip_list)]
        ELSE LET record_type == match[1].Type
             IN  IF record_type = "A"
                 THEN LET ip_list == resolve_to_external_ip(world, cur)
                      IN  [entered EXCEPT !.pc = "returned",
                                          !.calls = Append(@, cur),
                                          !.ret = Ret(cur, AStatus(ip_list), ip_list)]
                 ELSE IF IsCname(record_type)
                 THEN IF match[1].ResourceRecords = <<>>
                      THEN [entered EXCEPT !.pc = "raised"]
                      ELSE [entered EXCEPT
                               !.current_name = normalize(match[1].ResourceRecords[1])]
                 ELSE [entered EXCEPT !.pc = "returned",
                                      !.ret = Ret(cur, UnsupportedStatus(record_type), None)]

RECURSIVE ChainRun(_, _, _)
ChainRun(recs, world, st) ==
    IF st.pc # "while" THEN st
    ELSE \* the locals after one iteration, then the rest of the loop from them
         CHOOSE end \in {ChainRun(recs, world, nxt) :
                            nxt \in {ChainStep(recs, world, st)}} : TRUE

\* resolve_cname_chain(records, domain_name, resolver_address): the locals
\* when the call ends
resolve_cname_chain(recs, world, name) == ChainRun(recs, world, ChainStart(name))

\* =====================================================================
\* The stepwise walk of resolve_cname_chain (specification SpecChain)
\* =====================================================================

Rec(name, type, values) == [Name |-> name, Type |-> type, ResourceRecords |-> values]

\* The record sets a walk is run over: names a (spelled "A."), b, c; the
\* names d and "" (the value ".") have no record.
ChainRecords ==
    { Rec(<<"A", ".">>, "A", <<<<"1">>>>),
      Rec(<<"b">>, "A", <<<<"1">>>>),
      Rec(<<"b">>, "MX", <<<<"m">>>>),
      Rec(<<"c">>, "TXT", <<<<"t">>>>),
      Rec(<<"A", ".">>, "CNAME", <<<<"a", ".">>>>),
      Rec(<<"A", ".">>, "CNAME", <<<<"B", ".">>>>),
      Rec(<<"b">>, "CNAME", <<<<"A">>>>),
      Rec(<<"b">>, "CNAME", <<<<"c">>, <<"a">>>>),
      Rec(<<"c">>, "CNAME", <<<<"a">>>>),
      Rec(<<"c">>, "CNAME", <<<<"d">>>>),
      Rec(<<"c">>, "CNAME", <<<<".">>>>),
      Rec(<<"b">>, "CNAME", <<>>) }

SeqsUpTo(S, n) == UNION {[1..k -> S] : k \in 0..n}

ChainStartNames == {<<"A", ".", ".">>, <<"b">>, <<"d">>}
ChainWorlds == WorldsOver({<<"a">>, <<"b">>, <<"d">>})

RunIdle ==
    /\ variant = "check"
    /\ ignore_patterns = <<>>
    /\ limit = None
    /\ pc = "done"
    /\ idx = 1
    /\ unresolved = <<>>
    /\ resolved = <<>>
    /\ all_results = <<>>
    /\ processed_count = 0
    /\ seen_sources = {}
    /\ oracle_calls = <<>>
    /\ origin = <<>>

InitChain ==
    /\ records \in SeqsUpTo(ChainRecords, MaxChainRecords)
    /\ oracle \in ChainWorlds
    /\ domain_name \in ChainStartNames
    /\ chain = ChainStart(domain_name)
    /\ RunIdle

ChainMatch == FirstMatch(records, chain.current_name)

ChainAdvance ==
    /\ chain' = ChainStep(records, oracle, chain)
    /\ UNCHANGED <<records, oracle, domain_name, runVars>>

\* the while condition fails: return ..., "CNAME loop detected", None
ChainLoopDetected ==
    /\ chain.pc = "while"
    /\ ~LoopTest(chain)
    /\ ChainAdvance

\* if not match: resolve the name externally and return
ChainNoMatch ==
    /\ chain.pc = "while"
    /\ LoopTest(chain)
    /\ ChainMatch = None
    /\ ChainAdvance

\* record_type == 'A': resolve the name externally and return
ChainARecord ==
    /\ chain.pc = "while"
    /\ LoopTest(chain)
    /\ ChainMatch # None
    /\ ChainMatch[1].Type = "A"
    /\ ChainAdvance

\* record_type == 'CNAME': move to the normalized first value
ChainFollowCname ==
    /\ chain.pc = "while"
    /\ LoopTest(chain)
    /\ ChainMatch # None
    /\ ChainMatch[1].Type = "CNAME"
    /\ ChainMatch[1].ResourceRecords # <<>>
    /\ ChainAdvance

\* record_type == 'CNAME' with no value: match['ResourceRecords'][0] raises
ChainMalformedCname ==
    /\ chain.pc = "while"
    /\ LoopTest(chain)
    /\ ChainMatch # None
    /\ ChainMatch[1].Type = "CNAME"
    /\ ChainMatch[1].ResourceRecords = <<>>
    /\ ChainAdvance

\* any other type: return ..., "Unsupported record type: ...", None
ChainUnsupported ==
    /\ chain.pc = "while"
    /\ LoopTest(chain)
    /\ ChainMatch # None
    /\ ChainMatch[1].Type \notin {"A", "CNAME"}
    /\ ChainAdvance

NextChain ==
    \/ ChainLoopDetected
    \/ ChainNoMatch
    \/ ChainARecord
    \/ ChainFollowCname
    \/ ChainMalformedCname
    \/ ChainUnsupported

SpecChain == InitChain /\ [][NextChain]_vars

\* =====================================================================
\* The run loops of main (specification Spec)
\* =====================================================================

\* The record sets of a run: names a (also spelled "A.") and b; c and "" (the
\* value ".") have no record.
RunRecords ==
    { Rec(<<"a">>, "A", <<<<"1">>>>),
      Rec(<<"A", ".">>, "A", <<<<"1">>>>),
      Rec(<<"a">>, "MX", <<<<"m">>>>),
      Rec(<<"a">>, "CNAME", <<<<"C", ".">>>>),
      Rec(<<"b">>, "CNAME", <<<<"a">>>>),
      Rec(<<"b">>, "CNAME", <<<<".">>>>),
      Rec(<<"a">>, "CNAME", <<>>) }

Pat(start, lit, end) == [start |-> start, lit |-> lit, end |-> end]

\* --ignore '^$' | --ignore 'c' | --ignore '1' | --ignore '^a' --ignore 'x'
IgnoreLists ==
    { <<>>,
      <<Pat(TRUE, <<>>, TRUE)>>,
      <<Pat(FALSE, <<"c">>, FALSE)>>,
      <<Pat(FALSE, <<"1">>, FALSE)>>,
      <<Pat(FALSE, <<"x">>, FALSE), Pat(TRUE, <<"a">>, FALSE)>> }

\* --limit: absent, or an integer (argparse type=int accepts a negative one)
Limits == {None} \cup {Some(n) : n \in -1..MaxLimit}

RunWorlds == WorldsOver({<<"a">>, <<"c">>})

ChainIdle ==
    /\ domain_name = <<>>
    /\ chain = ChainStart(<<>>)

Init ==
    /\ variant \in {"check", "validator"}
    /\ records \in SeqsUpTo(RunRecords, MaxRecords)
    /\ ignore_patterns \in IgnoreLists
    /\ limit \in Limits
    /\ oracle \in RunWorlds
    /\ pc = "loop"
    /\ idx = 1
    /\ unresolved = <<>>
    /\ resolved = <<>>
    /\ all_results = <<>>
    /\ processed_count = 0
    /\ seen_sources = {}
    /\ oracle_calls = <<>>
    /\ origin = <<>>
    /\ ChainIdle

inputVars == <<variant, records, ignore_patterns, limit, oracle, domain_name, chain>>

\* faulty variant: the limit is tested after one record too many
LimitReachedLate == limit # None /\ processed_count > limit[1]

\* args.limit is not None and processed_count >= args.limit
LimitReached == limit # None /\ processed_count >= limit[1]

\* the loop is at a record and goes on to process it
AtRecord ==
    /\ pc = "loop"
    /\ idx <= Len(records)
    /\ ~LimitReached

record == records[idx]
source == normalize(record.Name)

\* sep.join(parts)
RECURSIVE Join(_, _)
Join(sep, parts) ==
    IF Len(parts) <= 1 THEN parts
    ELSE <<parts[1], sep>> \o Join(sep, Tail(parts))

NoResolution == <<"No DNS resolution">>

\* faulty variant: the IPs are kept for an unresolved record too
AllIpsAlways(ip_list) == IF ip_list = None THEN <<>> ELSE Join(", ", ip_list[1])

\* all_ips: ", ".join(ip_list), or the literal when ip_list is falsy
AllIps(ip_list) == IF Truthy(ip_list) THEN Join(", ", ip_list[1]) ELSE NoResolution

Result(src, final_domain, status, ip_list) ==
    [source |-> src, final_domain |-> final_domain, status |-> status,
     all_ips |-> AllIps(ip_list)]

\* faulty variant: a record whose lookup fails is dropped instead of listed
EmitDropUnresolved(src, final_domain, status, ip_list) ==
    LET result == Result(src, final_domain, status, ip_list)
        listed == Truthy(ip_list)
    IN  /\ processed_count' = IF listed THEN processed_count + 1 ELSE processed_count
        /\ all_results' = IF listed THEN Append(all_results, result) ELSE all_results
        /\ resolved' = IF listed THEN Append(resolved, result) ELSE resolved
        /\ unresolved' = unresolved
        /\ origin' = IF listed THEN Append(origin, idx) ELSE origin
        /\ idx' = idx + 1
        /\ pc' = pc

\* processed_count += 1 and the appends to all_results and to resolved or
\* unresolved; the loop moves to the next record
Emit(src, final_domain, status, ip_list) ==
    LET result == Result(src, final_domain, status, ip_list)
    IN  /\ processed_count' = processed_count + 1
        /\ all_results' = Append(all_results, result)
        /\ resolved' = IF Truthy(ip_list) THEN Append(resolved, result) ELSE resolved
        /\ unresolved' = IF Truthy(ip_list) THEN unresolved ELSE Append(unresolved, result)
        /\ origin' = Append(origin, idx)
        /\ idx' = idx + 1
        /\ pc' = pc

\* faulty variant: a skipped record counts as processed
ContinueCounted ==
    /\ idx' = idx + 1
    /\ processed_count' = processed_count + 1
    /\ UNCHANGED <<pc, unresolved, resolved, all_results, oracle_calls, origin>>

\* continue: the loop moves to the next record and nothing else changes
Continue ==
    /\ idx' = idx + 1
    /\ UNCHANGED <<pc, unresolved, resolved, all_results, processed_count,
                   oracle_calls, origin>>

\* an uncaught IndexError/KeyError ends main
Raise ==
    /\ pc' = "raised"
    /\ UNCHANGED <<idx, unresolved, resolved, all_results, processed_count, origin>>

\* the records are exhausted: the for loop ends
RunLoopEnd ==
    /\ pc = "loop"
    /\ idx > Len(records)
    /\ pc' = "done"
    /\ UNCHANGED <<inputVars, idx, unresolved, resolved, all_results,
                   processed_count, seen_sources, oracle_calls, origin>>

\* the limit is reached: break
RunLimitBreak ==
    /\ pc = "loop"
    /\ idx <= Len(records)
    /\ LimitReached
    /\ pc' = "done"
    /\ UNCHANGED <<inputVars, idx, unresolved, resolved, all_results,
                   processed_count, seen_sources, oracle_calls, origin>>

\* ------------------------------------------------------ route53_check.py

\* record['ResourceRecords'][0]['Value'] of a CNAME raises
CheckMalformed == record.Type = "CNAME" /\ record.ResourceRecords = <<>>

\* target = normalize(...) if record['Type'] == 'CNAME' else None
CheckTarget ==
    IF record.Type = "CNAME" THEN Some(normalize(record.ResourceRecords[1])) ELSE None

CheckIgnored == IgnoreMatch(ignore_patterns, source, CheckTarget)

\* the walk from the CNAME's target
CheckChain == resolve_cname_chain(records, oracle, CheckTarget[1])

CheckRaise ==
    /\ variant = "check"
    /\ AtRecord
    /\ CheckMalformed
    /\ Raise
    /\ UNCHANGED <<inputVars, seen_sources, oracle_calls>>

CheckIgnore ==
    /\ variant = "check"
    /\ AtRecord
    /\ ~CheckMalformed
    /\ CheckIgnored
    /\ Continue
    /\ UNCHANGED <<inputVars, seen_sources>>

CheckCname ==
    /\ variant = "check"
    /\ AtRecord
    /\ ~CheckMalformed
    /\ ~CheckIgnored
    /\ record.Type = "CNAME"
    /\ \E walk \in {CheckChain} :
          /\ walk.pc = "returned"
          /\ oracle_calls' = oracle_calls \o walk.calls
          /\ Emit(source, walk.ret.final_domain, walk.ret.status, walk.ret.ip_list)
    /\ UNCHANGED <<inputVars, seen_sources>>

\* the walk reaches a CNAME without a value and raises
CheckCnameRaise ==
    /\ variant = "check"
    /\ AtRecord
    /\ ~CheckMalformed
    /\ ~CheckIgnored
    /\ record.Type = "CNAME"
    /\ CheckChain.pc = "raised"
    /\ oracle_calls' = oracle_calls \o CheckChain.calls
    /\ Raise
    /\ UNCHANGED <<inputVars, seen_sources>>

\* faulty variant: the A branch does not set final_domain, which keeps the
\* value the previous result left in it
CheckAStale ==
    /\ variant = "check"
    /\ AtRecord
    /\ record.Type = "A"
    /\ ~CheckIgnored
    /\ LET ip_list == resolve_to_external_ip(oracle, source)
           final_domain == IF all_results = <<>> THEN source
                           ELSE all_results[Len(all_results)].final_domain
       IN  /\ oracle_calls' = Append(oracle_calls, source)
           /\ Emit(source, final_domain, AStatus(ip_list), ip_list)
    /\ UNCHANGED <<inputVars, seen_sources>>

CheckA ==
    /\ variant = "check"
    /\ AtRecord
    /\ record.Type = "A"
    /\ ~CheckIgnored
    /\ LET ip_list == resolve_to_external_ip(oracle, source)
       IN  /\ oracle_calls' = Append(oracle_calls, source)
           /\ Emit(source, source, AStatus(ip_list), ip_list)
    /\ UNCHANGED <<inputVars, seen_sources>>

CheckOther ==
    /\ variant = "check"
    /\ AtRecord
    /\ record.Type \notin {"A", "CNAME"}
    /\ ~CheckIgnored
    /\ Continue
    /\ UNCHANGED <<inputVars, seen_sources>>

\* -------------------------------------------------- route53_validator.py

\* not (record['Type'] not in ('A', 'CNAME'))
ValTypeOk == record.Type \in {"A", "CNAME"}

\* target = normalize(...) if 'ResourceRecords' in record and record['ResourceRecords'] else None
ValTarget ==
    IF record.ResourceRecords # <<>> THEN Some(normalize(record.ResourceRecords[1]))
    ELSE None

\* faulty variant: a source is never taken for seen
ValSeenNever == FALSE

ValSeen == source \in seen_sources

ValIgnored == IgnoreMatch(ignore_patterns, source, ValTarget)

SourceStatus(ip_list_source) ==
    IF Truthy(ip_list_source) THEN "[ok] Source resolves" ELSE "[x] Source does not resolve"
TargetStatus(ip_list_target) ==
    IF Truthy(ip_list_target) THEN "[ok] Target resolves" ELSE "[x] Target does not resolve"

\* ip_list_source or []
OrEmpty(ip_list_source) == IF Truthy(ip_list_source) THEN ip_list_source ELSE Some(<<>>)

ValOther ==
    /\ variant = "validator"
    /\ AtRecord
    /\ ~ValTypeOk
    /\ Continue
    /\ UNCHANGED <<inputVars, seen_sources>>

ValDuplicate ==
    /\ variant = "validator"
    /\ AtRecord
    /\ ValTypeOk
    /\ ValSeen
    /\ Continue
    /\ UNCHANGED <<inputVars, seen_sources>>

ValIgnore ==
    /\ variant = "validator"
    /\ AtRecord
    /\ ValTypeOk
    /\ ~ValSeen
    /\ ValIgnored
    /\ seen_sources' = seen_sources \cup {source}
    /\ Continue
    /\ UNCHANGED inputVars

ValA ==
    /\ variant = "validator"
    /\ AtRecord
    /\ ValTypeOk
    /\ ~ValSeen
    /\ ~ValIgnored
    /\ record.Type # "CNAME"
    /\ seen_sources' = seen_sources \cup {source}
    /\ LET ip_list_source == resolve_to_external_ip(oracle, source)
       IN  /\ oracle_calls' = Append(oracle_calls, source)
           /\ Emit(source, source, Join("; ", <<SourceStatus(ip_list_source)>>),
                   OrEmpty(ip_list_source))
    /\ UNCHANGED inputVars

ValCname ==
    /\ variant = "validator"
    /\ AtRecord
    /\ ValTypeOk
    /\ ~ValSeen
    /\ ~ValIgnored
    /\ record.Type = "CNAME"
    /\ record.ResourceRecords # <<>>
    /\ seen_sources' = seen_sources \cup {source}
    /\ LET ip_list_source == resolve_to_external_ip(oracle, source)
           target == normalize(record.ResourceRecords[1])
           ip_list_target == resolve_to_external_ip(oracle, target)
           status_parts ==
               IF Truthy(ip_list_source)
               THEN <<SourceStatus(ip_list_source), TargetStatus(ip_list_target)>>
               ELSE <<SourceStatus(ip_list_source)>>
       IN  /\ oracle_calls' = oracle_calls \o <<source, target>>
           /\ Emit(source, target, Join("; ", status_parts), OrEmpty(ip_list_source))
    /\ UNCHANGED inputVars

\* record['ResourceRecords'][0] of a CNAME without a value raises, after the
\* source was resolved
ValCnameRaise ==
    /\ variant = "validator"
    /\ AtRecord
    /\ ValTypeOk
    /\ ~ValSeen
    /\ ~ValIgnored
    /\ record.Type = "CNAME"
    /\ record.ResourceRecords = <<>>
    /\ seen_sources' = seen_sources \cup {source}
    /\ oracle_calls' = Append(oracle_calls, source)
    /\ Raise
    /\ UNCHANGED inputVars

Next ==
    \/ RunLoopEnd
    \/ RunLimitBreak
    \/ CheckRaise
    \/ CheckIgnore
    \/ CheckCname
    \/ CheckCnameRaise
    \/ CheckA
    \/ CheckOther
    \/ ValOther
    \/ ValDuplicate
    \/ ValIgnore
    \/ ValA
    \/ ValCname
    \/ ValCnameRaise

Spec == Init /\ [][Next]_vars

\* The for loop always goes on to its next step: main is one sequential
\* process and no step of it waits for anything.
SpecLive == Spec /\ WF_vars(Next)

\* ------------------------------------------------ properties of the walk

\* the number of distinct normalized record names
IndexSize(recs) == Cardinality({normalize(recs[k].Name) : k \in 1..Len(recs)})

\* the name a CNAME hop leads to: None when the name has no record, its first
\* record is no CNAME, or the CNAME has no value
Hop(recs, name) ==
    LET m == FirstMatch(recs, name)
    IN  IF m # None /\ m[1].Type = "CNAME" /\ m[1].ResourceRecords # <<>>
        THEN Some(normalize(m[1].ResourceRecords[1]))
        ELSE None

RECURSIVE HopN(_, _, _)
HopN(recs, name, n) ==
    IF n = 0 THEN Some(name)
    ELSE LET nxt == Hop(recs, name)
         IN  IF nxt = None THEN None ELSE HopN(recs, nxt[1], n - 1)

\* the hops never end: more hops are possible than there are record names
EntersCycle(recs, start) == HopN(recs, normalize(start), IndexSize(recs) + 1) # None

\* the names in the order the hops reach them, up to the first repeated one
RECURSIVE WalkFrom(_, _)
WalkFrom(recs, path) ==
    LET nxt == Hop(recs, path[Len(path)])
    IN  IF nxt = None THEN [path |-> path, repeat |-> FALSE]
        ELSE IF \E k \in 1..Len(path) : path[k] = nxt[1]
        THEN [path |-> Append(path, nxt[1]), repeat |-> TRUE]
        ELSE WalkFrom(recs, Append(path, nxt[1]))
Walk(recs, start) == WalkFrom(recs, <<normalize(start)>>)
WalkEnd(recs, start) == Walk(recs, start).path[Len(Walk(recs, start).path)]

ChainReturnedLoop == chain.pc = "returned" /\ chain.ret.status = LoopStatus

\* C1: the loop body of resolve_cname_chain runs at most |index|+1 times, every
\* step of an unfinished walk either ends it or is one more execution of the
\* body, and a walk that enters a CNAME cycle ends with the loop-detected
\* outcome.
C1_ChainTerminates ==
    /\ chain.steps <= IndexSize(records) + 1
    /\ chain.pc = "while" =>
          \/ ChainStep(records, oracle, chain).pc # "while"
          \/ ChainStep(records, oracle, chain).steps = chain.steps + 1
    /\ (chain.pc # "while" /\ EntersCycle(records, domain_name)) => ChainReturnedLoop

\* a cycle a -> b -> c -> a walked from a: three executions, then the loop outcome
C1_Witness ==
    /\ ChainReturnedLoop
    /\ chain.steps = 3
    /\ IndexSize(records) = 3
    /\ chain.ret.final_domain = <<"a">>

\* C2: the loop outcome (status "CNAME loop detected", no IPs) is returned
\* exactly when the CNAME hops from the start name reach a name already
\* visited, and the final name is that repeated name.
C2_LoopExactlyOnRepeat ==
    chain.pc # "while" =>
        /\ ChainReturnedLoop <=> Walk(records, domain_name).repeat
        /\ ChainReturnedLoop =>
              /\ chain.ret.final_domain = WalkEnd(records, domain_name)
              /\ chain.ret.ip_list = None

\* x -> y -> x started at x returns the loop outcome at x (here b -> a -> b)
C2_Witness ==
    /\ ChainReturnedLoop
    /\ chain.steps = 2
    /\ normalize(domain_name) = <<"b">>
    /\ chain.ret.final_domain = <<"b">>
    /\ chain.tested_records = {<<"a">>, <<"b">>}

\* C3: a walk ending at a name N with no record, or with an A record, returns
\* N, the oracle's answer for N and the status that record and answer decide.
C3_TerminalOutcome ==
    chain.pc = "returned" =>
        LET N == chain.ret.final_domain
            m == FirstMatch(records, N)
            ip_list == resolve_to_external_ip(oracle, N)
        IN  /\ (m = None /\ ip_list # None) =>
                  chain.ret = Ret(N, <<"Resolved externally">>, ip_list)
            /\ (m = None /\ ip_list = None) =>
                  chain.ret = Ret(N, <<"Does not have an IP match">>, None)
            /\ (m # None /\ m[1].Type = "A" /\ ip_list # None) =>
                  chain.ret = Ret(N, <<"Externally resolvable A record">>, ip_list)
            /\ (m # None /\ m[1].Type = "A" /\ ip_list = None) =>
                  chain.ret = Ret(N, <<"A record does not resolve externally">>, None)
            /\ (m = None \/ m[1].Type = "A") => N = WalkEnd(records, domain_name)

\* a -> b with b an A record that resolves: final name b, A-resolvable status
C3_Witness ==
    /\ chain.pc = "returned"
    /\ chain.steps = 2
    /\ normalize(domain_name) = <<"a">>
    /\ chain.ret = Ret(<<"b">>, <<"Externally resolvable A record">>, <<<<"10.0.0.1">>>>)

\* C4: at a name whose first record is neither A nor CNAME the walk returns
\* at once: unsupported-type status naming the type, that name as final name,
\* no IPs, and no oracle call made by the call.
C4_UnsupportedStopsAtOnce ==
    [][ (/\ chain.pc = "while"
         /\ ChainMatch # None
         /\ ChainMatch[1].Type \notin {"A", "CNAME"})
        => (/\ chain'.pc = "returned"
            /\ chain'.ret = Ret(chain.current_name,
                                UnsupportedStatus(ChainMatch[1].Type), None)
            /\ chain'.calls = <<>>) ]_vars

\* an MX record reached after one CNAME hop
C4_Witness ==
    /\ chain.pc = "returned"
    /\ chain.steps = 2
    /\ chain.ret = Ret(<<"b">>, UnsupportedStatus("MX"), None)
    /\ chain.calls = <<>>

\* ------------------------------------------------ properties of the runs

IsAOrCname(k) == records[k].Type \in {"A", "CNAME"}
NameOf(k) == normalize(records[k].Name)

\* the target the ignore filter of the running script tests for record k
FilterTarget(k) ==
    IF records[k].ResourceRecords # <<>> /\ (variant = "validator" \/ records[k].Type = "CNAME")
    THEN Some(normalize(records[k].ResourceRecords[1]))
    ELSE None

\* record k is skipped by the ignore filter of the running script
FilterIgnores(k) == IgnoreMatch(ignore_patterns, NameOf(k), FilterTarget(k))

\* some pattern matches the source name of record k or its CNAME target
PatternMatches(k) ==
    \E p \in 1..Len(ignore_patterns) :
        \/ search(ignore_patterns[p], NameOf(k))
        \/ /\ records[k].Type = "CNAME"
           /\ records[k].ResourceRecords # <<>>
           /\ search(ignore_patterns[p], normalize(records[k].ResourceRecords[1]))

\* C5: a record whose source name or CNAME target matches an ignore pattern
\* adds no result, causes no oracle call and does not count as processed.
C5_IgnoredNeverProcessed ==
    [][ (AtRecord /\ PatternMatches(idx))
        => UNCHANGED <<all_results, resolved, unresolved, oracle_calls, processed_count>>
      ]_vars

\* record k is eligible: A or CNAME, not skipped by the ignore filter and, in
\* the validator, no A/CNAME record before it has the same normalized name
Eligible(k) ==
    /\ IsAOrCname(k)
    /\ ~FilterIgnores(k)
    /\ variant = "validator" =>
          \A j \in 1..(k - 1) : ~(IsAOrCname(j) /\ NameOf(j) = NameOf(k))

EligibleIdx == SelectSeq([k \in 1..Len(records) |-> k], Eligible)
Min2(a, b) == IF a <= b THEN a ELSE b
Max2(a, b) == IF a >= b THEN a ELSE b

LimitYields(n) ==
    /\ Len(all_results) = n
    /\ origin = SubSeq(EligibleIdx, 1, n)
    /\ \A k \in 1..Len(all_results) : all_results[k].source = NameOf(origin[k])

\* C6 as stated: with limit = N the finished run holds exactly
\* min(N, eligible_count) results, those of the first eligible records in
\* input order.
C6_LimitAsStated ==
    (pc = "done" /\ limit # None) => LimitYields(Min2(limit[1], Len(EligibleIdx)))

\* C6: with limit = N the finished run holds exactly
\* min(max(N, 0), eligible_count) results, those of the first eligible records
\* in input order.
C6_LimitEnforced ==
    (pc = "done" /\ limit # None) =>
        LimitYields(Min2(Max2(limit[1], 0), Len(EligibleIdx)))

\* the limit cuts the run short: the first record is ignored, the second gives
\* the only result and a third eligible record is left out
C6_Witness ==
    /\ pc = "done"
    /\ limit = Some(1)
    /\ Len(records) = 3
    /\ EligibleIdx = <<2, 3>>
    /\ origin = <<2>>

NoTwoSameSource ==
    \A i, j \in 1..Len(all_results) :
        all_results[i].source = all_results[j].source => i = j

\* C7 as stated (validator): no two results share a source name, and a record
\* whose normalized name an earlier input record has is skipped without an
\* oracle call or a count increment.
C7_DedupAsStated ==
    /\ [](variant = "validator" => NoTwoSameSource)
    /\ [][ (/\ variant = "validator"
            /\ AtRecord
            /\ \E j \in 1..(idx - 1) : NameOf(j) = NameOf(idx))
           => UNCHANGED <<all_results, oracle_calls, processed_count>> ]_vars

\* C7 (validator): no two results share a source name, and a record whose
\* normalized name an earlier A or CNAME input record has is skipped without
\* an oracle call or a count increment.
C7_Dedup ==
    /\ [](variant = "validator" => NoTwoSameSource)
    /\ [][ (/\ variant = "validator"
            /\ AtRecord
            /\ \E j \in 1..(idx - 1) : IsAOrCname(j) /\ NameOf(j) = NameOf(idx))
           => UNCHANGED <<all_results, oracle_calls, processed_count>> ]_vars

\* two A records spelled "a" and "A.": the second was passed over
C7_Witness ==
    /\ variant = "validator"
    /\ Len(records) >= 2
    /\ idx = 3
    /\ IsAOrCname(1) /\ IsAOrCname(2)
    /\ records[1].Name # records[2].Name
    /\ NameOf(1) = NameOf(2)
    /\ origin = <<1>>
    /\ Len(oracle_calls) = 1

\* C8: in a finished run without a limit, the first A/CNAME record of each
\* normalized name that the ignore filter does not skip has been classified.
C8_FirstNonIgnoredClassified ==
    (pc = "done" /\ limit = None) =>
        \A k \in 1..Len(records) :
            (/\ IsAOrCname(k)
             /\ ~FilterIgnores(k)
             /\ \A j \in 1..(k - 1) :
                   (IsAOrCname(j) /\ NameOf(j) = NameOf(k)) => FilterIgnores(j))
            => \E i \in 1..Len(origin) : origin[i] = k

\* the ip_list of record k is truthy
IpResolves(k) ==
    IF variant = "check" /\ records[k].Type = "CNAME"
    THEN Truthy(resolve_cname_chain(records, oracle,
                                    normalize(records[k].ResourceRecords[1])).ret.ip_list)
    ELSE Truthy(resolve_to_external_ip(oracle, NameOf(k)))

RECURSIVE Pick(_, _, _)
Pick(results, from, want) ==
    IF results = <<>> THEN <<>>
    ELSE (IF IpResolves(from[1]) = want THEN <<results[1]>> ELSE <<>>)
         \o Pick(Tail(results), Tail(from), want)

\* C9: resolved holds exactly the results whose record has a non-empty IP
\* list, unresolved the others, each of them with all_ips "No DNS resolution"
\* and no resolved one with it; all three lists are in input record order.
C9_Partition ==
    /\ Len(origin) = Len(all_results)
    /\ \A i, j \in 1..Len(origin) : i < j => origin[i] < origin[j]
    /\ \A k \in 1..Len(all_results) :
          /\ all_results[k].source = NameOf(origin[k])
          /\ all_results[k].all_ips = NoResolution <=> ~IpResolves(origin[k])
    /\ resolved = Pick(all_results, origin, TRUE)
    /\ unresolved = Pick(all_results, origin, FALSE)

\* three results: unresolved, resolved, unresolved
C9_Witness ==
    /\ Len(all_results) = 3
    /\ Len(resolved) = 1
    /\ Len(unresolved) = 2
    /\ resolved[1] = all_results[2]
    /\ unresolved[2] = all_results[3]

\* C10: a CNAME without a value never ends the run with an exception.
C10_MalformedDoesNotCrash == pc # "raised"

\* every CNAME record has a value
WellFormed ==
    \A k \in 1..Len(records) :
        records[k].Type = "CNAME" => records[k].ResourceRecords # <<>>

\* The source names a finished run lists, computed from the records, the
\* ignore patterns and the limit alone: no oracle answer enters it.
ExpectedCount ==
    IF limit = None THEN Len(EligibleIdx)
    ELSE Min2(Max2(limit[1], 0), Len(EligibleIdx))
ExpectedSources == [k \in 1..ExpectedCount |-> NameOf(EligibleIdx[k])]
\* how many of them stem from the records the loop has gone through
ExpectedSoFar ==
    Min2(ExpectedCount, Cardinality({k \in 1..Len(EligibleIdx) : EligibleIdx[k] < idx}))
SourcesOf(results) == [k \in 1..Len(results) |-> results[k].source]

\* the final name of record k's result, from the records alone
ExpectedFinal(k) ==
    IF records[k].Type # "CNAME" THEN NameOf(k)
    ELSE IF variant = "check" THEN WalkEnd(records, records[k].ResourceRecords[1])
    ELSE normalize(records[k].ResourceRecords[1])

\* some name main or the walk asked the oracle for does not resolve
SomeLookupFailed ==
    \E k \in 1..Len(oracle_calls) : resolve_to_external_ip(oracle, oracle_calls[k]) = None

\* C11: on well-formed records, whatever the oracle answers, the run never
\* raises and reaches its end, and the source names of all_results are at
\* every point of the loop, and at the end, a sequence fixed by the records,
\* the patterns, the limit and the loop position alone, and every final name
\* is fixed by the records alone, so both are the same under every oracle.
C11_OracleFailureIsValue ==
    /\ [](WellFormed => pc # "raised")
    /\ [](WellFormed => SourcesOf(all_results) = SubSeq(ExpectedSources, 1, ExpectedSoFar))
    /\ [](WellFormed =>
            \A k \in 1..Len(all_results) :
                all_results[k].final_domain = ExpectedFinal(origin[k]))
    /\ []((WellFormed /\ pc = "done") => SourcesOf(all_results) = ExpectedSources)
    /\ (WellFormed ~> pc = "done")

\* a finished run with a limit in which a lookup failed and another succeeded
C11_Witness ==
    /\ WellFormed
    /\ pc = "done"
    /\ limit = Some(2)
    /\ Len(records) = 3
    /\ SomeLookupFailed
    /\ Len(resolved) = 1
    /\ Len(unresolved) = 1

\* the step classifies the A record the chain-following loop is at
ClassifiesA ==
    /\ variant = "check"
    /\ AtRecord
    /\ record.Type = "A"
    /\ all_results' # all_results

\* the step leaves what resolve_cname_chain on the source would give: its
\* final name, status and IPs in the new result, its oracle calls made
SameAsChainOnSource ==
    LET walk == resolve_cname_chain(records, oracle, source)
    IN  /\ walk.pc = "returned"
        /\ all_results' = Append(all_results,
                                 Result(source, walk.ret.final_domain, walk.ret.status,
                                        walk.ret.ip_list))
        /\ Truthy(walk.ret.ip_list) <=> resolved' # resolved
        /\ oracle_calls' = oracle_calls \o walk.calls

\* no record before the one the loop is at has its normalized name and
\* another type than A
FirstOfNameIsA ==
    \A j \in 1..(idx - 1) : NameOf(j) = source => records[j].Type = "A"

\* C12 as stated: for every A record the chain-following script classifies,
\* the direct path gives the final name, status and IPs that
\* resolve_cname_chain gives on the record's source over the same records.
C12_DirectEqualsChainAsStated ==
    [][ClassifiesA => SameAsChainOnSource]_vars

\* C12: for every A record the chain-following script classifies and that no
\* earlier record of another type shares its normalized name with, the direct
\* path gives the final name, status and IPs that resolve_cname_chain gives on
\* the record's source over the same records, with the same single oracle
\* call.
C12_DirectEqualsChain ==
    [][(ClassifiesA /\ FirstOfNameIsA) => SameAsChainOnSource]_vars

\* an A record followed by an MX record of the same name was classified and
\* resolves
C12_Witness ==
    /\ variant = "check"
    /\ Len(records) >= 2
    /\ records[1].Type = "A"
    /\ records[2].Type = "MX"
    /\ NameOf(1) = NameOf(2)
    /\ Len(origin) >= 1
    /\ origin[1] = 1
    /\ Len(resolved) >= 1
    /\ resolved[1].status = <<"Externally resolvable A record">>

\* record k has a result in all_results
Listed(k) == \E a \in 1..Len(origin) : origin[a] = k
ResultOf(k) == all_results[CHOOSE a \in 1..Len(origin) : origin[a] = k]

\* the loop has gone through the positions i < j, which hold the same record,
\* and has classified the first of them
ClassifiedThenRepeated(i, j) ==
    /\ i < j
    /\ j < idx
    /\ records[i] = records[j]
    /\ Listed(i)

\* C13 as stated: when the run meets a record it has classified once more,
\* the second classification yields a result, identical to the first (same
\* source, final name, status and IPs), in both scripts.
C13_ClassifyTwiceAsStated ==
    \A i, j \in 1..Len(records) :
        ClassifiedThenRepeated(i, j) => (Listed(j) /\ ResultOf(j) = ResultOf(i))

\* C13: when the chain-following script meets a record it has classified once
\* more, whatever the run has listed, counted and asked the oracle in between,
\* the second classification yields a result identical to the first; the
\* validator yields no second result, it skips the record as a seen source.
C13_ClassifyTwiceSame ==
    \A i, j \in 1..Len(records) :
        ClassifiedThenRepeated(i, j) =>
            IF variant = "check"
            THEN Listed(j) /\ ResultOf(j) = ResultOf(i)
            ELSE ~Listed(j)

\* the chain-following script classified the same CNAME record at positions 1
\* and 3, with an A record classified in between, and all three resolve
C13_Witness ==
    /\ variant = "check"
    /\ idx = 4
    /\ origin = <<1, 2, 3>>
    /\ records[1] = records[3]
    /\ records[1].Type = "CNAME"
    /\ records[2].Type = "A"
    /\ all_results[1] = all_results[3]
    /\ all_results[1] # all_results[2]
    /\ resolved = all_results

\* The record list reduced to an index: of the records sharing a normalized
\* name only the first is kept, and every name is replaced by its normalized
\* form.
FirstOfName(recs, k) ==
    \A j \in 1..(k - 1) : normalize(recs[j].Name) # normalize(recs[k].Name)
RECURSIVE IndexFrom(_, _)
IndexFrom(recs, k) ==
    IF k > Len(recs) THEN <<>>
    ELSE (IF FirstOfName(recs, k)
          THEN <<[recs[k] EXCEPT !.Name = normalize(recs[k].Name)]>>
          ELSE <<>>) \o IndexFrom(recs, k + 1)
RecordIndex(recs) == IndexFrom(recs, 1)

\* the walk looked a name up that several records have, under another spelling
LookedUpDuplicate ==
    \E i, j \in 1..Len(records) :
        /\ i < j
        /\ NameOf(i) = NameOf(j)
        /\ NameOf(i) \in chain.tested_records
        /\ records[i].Name # NameOf(i)
        /\ records[i].Type # records[j].Type

\* C14: every step of the walk over the record list is the step over the
\* list's index, which holds normalized names only and, of the records
\* sharing a normalized name, only the first in input order; so the lookup
\* compares normalized names, takes the first record of the name, and no
\* later duplicate changes the walk.
C14_FirstOccurrenceByNormalizedName ==
    [][chain.pc = "while" => chain' = ChainStep(RecordIndex(records), oracle, chain)]_vars

\* a walk that met "A." with a CNAME first and an A record second followed the
\* CNAME to b
C14_Witness ==
    /\ chain.pc = "returned"
    /\ LookedUpDuplicate
    /\ Len(records) = 3
    /\ records[1] = Rec(<<"A", ".">>, "CNAME", <<<<"B", ".">>>>)
    /\ records[2] = Rec(<<"A", ".">>, "A", <<<<"1">>>>)
    /\ chain.steps = 2
    /\ chain.ret.final_domain = <<"b">>
    /\ Len(RecordIndex(records)) = 2

\* some pattern matches the normalized source name of the record the loop is at
SourceMatches == \E p \in 1..Len(ignore_patterns) : search(ignore_patterns[p], source)

\* the loop is at an A record that reaches the ignore filter
AtFilteredA ==
    /\ AtRecord
    /\ record.Type = "A"
    /\ variant = "validator" => ~ValSeen

\* C15: an A record that reaches the ignore filter is skipped by it, adding
\* no result and causing no oracle call, if and only if some pattern matches
\* its normalized source name; its value plays no part.
C15_AFilteredBySourceOnly ==
    [][AtFilteredA =>
          /\ (all_results' = all_results) <=> SourceMatches
          /\ (oracle_calls' = oracle_calls) <=> SourceMatches]_vars

\* the name with one trailing dot removed, when it ends in a dot, and
\* lower-cased
OneDotStripped(name) ==
    LET s == IF Len(name) > 0 /\ name[Len(name)] = "."
             THEN SubSeq(name, 1, Len(name) - 1)
             ELSE name
    IN  [k \in 1..Len(s) |-> Lower(s[k])]

\* C16: normalize maps a name to the name with exactly one trailing dot
\* removed and lower-cased: the walk starts at that form of its argument, and
\* a name ending in two dots keeps one.
C16_NormalizeStripsOneDot ==
    chain.steps = 0 => chain.current_name = OneDotStripped(domain_name)

\* a limit that is not negative is set
LimitSet == limit # None /\ limit[1] >= 0

\* C17: between the iterations of the run loop, in both scripts,
\* processed_count = len(all_results) = len(resolved) + len(unresolved); with
\* a non-negative limit processed_count never exceeds it, and once it has
\* reached the limit no further record is examined, none is listed and no
\* oracle call is made.
C17_CountInvariant ==
    /\ [](/\ processed_count = Len(all_results)
          /\ Len(all_results) = Len(resolved) + Len(unresolved))
    /\ [](LimitSet => processed_count <= limit[1])
    /\ [][(LimitSet /\ processed_count >= limit[1]) =>
             UNCHANGED <<idx, all_results, resolved, unresolved, processed_count,
                         oracle_calls, seen_sources>>]_vars

\* the validator stopped at its limit of two with a record left: one result
\* resolved, one did not
C17_Witness ==
    /\ variant = "validator"
    /\ pc = "done"
    /\ limit = Some(2)
    /\ processed_count = 2
    /\ idx = 3
    /\ Len(records) = 3
    /\ Len(resolved) = 1
    /\ Len(unresolved) = 1

\* the first record of the name is a CNAME
FirstIsCname(name) ==
    LET m == FirstMatch(records, name)
    IN  m # None /\ m[1].Type = "CNAME"

\* C18: a call of resolve_cname_chain asks the oracle at most once, only in
\* the step that returns and only for the name it returns; every name visited
\* before the final one has a CNAME as its first record; a call that ends
\* with the loop or the unsupported-type outcome asks the oracle nothing.
C18_OracleOnlyAtTheEnd ==
    /\ Len(chain.calls) <= 1
    /\ chain.calls # <<>> =>
          /\ chain.pc = "returned"
          /\ chain.calls = <<chain.ret.final_domain>>
          /\ chain.ret.final_domain = chain.current_name
    /\ \A n \in chain.tested_records : n # chain.current_name => FirstIsCname(n)
    /\ (/\ chain.pc = "returned"
        /\ \/ chain.ret.status = LoopStatus
           \/ \E t \in {"MX", "TXT"} : chain.ret.status = UnsupportedStatus(t))
       => chain.calls = <<>>
    /\ (/\ chain.pc = "returned"
        /\ chain.ret.status # LoopStatus
        /\ \A t \in {"MX", "TXT"} : chain.ret.status # UnsupportedStatus(t))
       => chain.calls = <<chain.ret.final_domain>>

\* a -> b -> c -> d, d without a record: four names visited, one oracle call,
\* on d, which resolves
C18_Witness ==
    /\ chain.pc = "returned"
    /\ chain.steps = 4
    /\ chain.tested_records = {<<"a">>, <<"b">>, <<"c">>, <<"d">>}
    /\ chain.calls = <<<<"d">>>>
    /\ chain.ret = Ret(<<"d">>, <<"Resolved externally">>, <<<<"10.0.0.1">>>>)

====
